---- MODULE Spec2Model ----
(***************************************************************************)
(* Model of server.py: the HTTP-to-UART bridge of the Waveshare rover.     *)
(*                                                                         *)
(* The process opens one global serial handle `ser`, then serves motion    *)
(* requests.  The werkzeug development server started by app.run handles   *)
(* every request on a thread of its own, so handlers interleave at their   *)
(* blocking points (each serial write, the time.sleep hold).  No lock      *)
(* exists in the source, and none is modelled.                             *)
(*                                                                         *)
(* Units: wheel speeds are in tenths (0.3 is 3); durations are in ticks of *)
(* 1/1800 s, the coarsest unit in which both d / 10.0 and                  *)
(* degree * (0.65/90) are whole numbers.                                   *)
(***************************************************************************)
EXTENDS Integers, Sequences, FiniteSets

\* ---- bounds ----
MaxRequests == 2
MaxArg == 5
MaxCleanups == 2

\* ---- program constants ----
ROBOT_SPEED_CM_PER_SECOND == 10
DEFAULT_DRIVE_SPEED == 3
TicksPerSecond == 90 * 20

Requests == 1..MaxRequests
\* the integers a handler is called with: a negative one, zero, and two
\* positive ones
ArgValues == {-MaxArg, 0, MaxArg, 25}
TimedKinds == {"forward", "backward", "left", "right"}
Kinds == TimedKinds \cup {"stop"}
\* what ser.write does on the port as init_serial_connection opens it (no
\* write timeout: a blocking write): it takes every byte, or it raises
WriteOutcomes == {"all", "SerialException", "Exception"}
\* a transport that may also take only some of the bytes and return the
\* smaller count without raising
PartialWriteOutcomes == WriteOutcomes \cup {"partial"}

VARIABLES
    ser,     \* the global handle: "None", "open" or "closed" (is_open False)
    phase,   \* "boot", "serving" or "exited"
    req,     \* per request: the handler's position and locals
    log,     \* every call of send_motor_command_uart, in order
    cleanups \* how many times cleanup_serial has run

vars == <<ser, phase, req, log, cleanups>>

Idle == [pc |-> "idle", kind |-> "stop", arg |-> 0, duration |-> 0,
         slept |-> 0, status |-> 0, message |-> "none"]

\* ---- pure helpers ----

\* command_payload of send_motor_command_uart: T is the fixed string "1",
\* L and R the two speeds as floats
CommandPayload(left_speed, right_speed) ==
    [T |-> "1", L |-> left_speed, R |-> right_speed]

StopCommand == CommandPayload(0, 0)

\* StartCommand with the calibration constant passed where the drive speed
\* belongs (10 cm/s read as a wheel speed of 1.0)
StartCommandWrongConstant(k) ==
    CASE k = "forward"  -> CommandPayload(ROBOT_SPEED_CM_PER_SECOND, ROBOT_SPEED_CM_PER_SECOND)
      [] k = "backward" -> CommandPayload(-ROBOT_SPEED_CM_PER_SECOND, -ROBOT_SPEED_CM_PER_SECOND)
      [] k = "left"     -> CommandPayload(-3, 3)
      [] k = "right"    -> CommandPayload(3, -3)

\* StartCommand with the wheel signs of the two turns exchanged
StartCommandTurnsSwapped(k) ==
    CASE k = "forward"  -> CommandPayload(DEFAULT_DRIVE_SPEED, DEFAULT_DRIVE_SPEED)
      [] k = "backward" -> CommandPayload(-DEFAULT_DRIVE_SPEED, -DEFAULT_DRIVE_SPEED)
      [] k = "left"     -> CommandPayload(3, -3)
      [] k = "right"    -> CommandPayload(-3, 3)

\* the start command each timed handler passes to send_motor_command_uart
StartCommand(k) ==
    CASE k = "forward"  -> CommandPayload(DEFAULT_DRIVE_SPEED, DEFAULT_DRIVE_SPEED)
      [] k = "backward" -> CommandPayload(-DEFAULT_DRIVE_SPEED, -DEFAULT_DRIVE_SPEED)
      [] k = "left"     -> CommandPayload(-3, 3)
      [] k = "right"    -> CommandPayload(3, -3)

\* LinearDuration with integer division (// for /): whole seconds only
LinearDurationFloorDiv(distance_cm) ==
    (distance_cm \div ROBOT_SPEED_CM_PER_SECOND) * TicksPerSecond

\* duration = distance_cm / ROBOT_SPEED_CM_PER_SECOND, in ticks
LinearDuration(distance_cm) ==
    (distance_cm * TicksPerSecond) \div ROBOT_SPEED_CM_PER_SECOND

\* duration = degree * (0.65/90), in ticks
TurnDuration(degree) ==
    (degree * 65 * TicksPerSecond) \div (100 * 90)

Duration(k, a) ==
    IF k \in {"forward", "backward"} THEN LinearDuration(a) ELSE TurnDuration(a)

\* send_motor_command_uart with the check of the port left out
SendMotorCommandUartUnchecked(w) ==
    CASE w = "all"     -> [ok |-> TRUE, msg |-> "OK", wrote |-> "all"]
      [] w = "partial" -> [ok |-> TRUE, msg |-> "OK", wrote |-> "partial"]
      [] w = "SerialException" ->
           [ok |-> FALSE, msg |-> "Serial communication error", wrote |-> "none"]
      [] w = "Exception" ->
           [ok |-> FALSE, msg |-> "Unexpected error", wrote |-> "none"]

\* send_motor_command_uart: what it returns and what reached the transport,
\* given what ser.write would do (w)
SendMotorCommandUart(w) ==
    IF ser # "open"
    THEN [ok |-> FALSE, msg |-> "Serial port not open.", wrote |-> "none"]
    ELSE CASE w = "all"     -> [ok |-> TRUE, msg |-> "OK", wrote |-> "all"]
           [] w = "partial" -> [ok |-> TRUE, msg |-> "OK", wrote |-> "partial"]
           [] w = "SerialException" ->
                [ok |-> FALSE, msg |-> "Serial communication error", wrote |-> "none"]
           [] w = "Exception" ->
                [ok |-> FALSE, msg |-> "Unexpected error", wrote |-> "none"]

LogEntry(r, cmd, res) ==
    [by |-> r, cmd |-> cmd, ok |-> res.ok, wrote |-> res.wrote]

\* ---- initial state ----

Init ==
    /\ ser = "None"
    /\ phase = "boot"
    /\ req = [r \in Requests |-> Idle]
    /\ log = <<>>
    /\ cleanups = 0

\* ---- process lifecycle ----

\* init_serial_connection, called from the main block before app.run
InitSerialConnection ==
    /\ phase = "boot"
    /\ \E o \in {"opened", "not_open", "SerialException", "Exception"} :
          ser' = IF o = "opened" THEN "open" ELSE "None"
    /\ phase' = "serving"
    /\ UNCHANGED <<req, log, cleanups>>

\* the module served by a WSGI host that imports it: the main block, and
\* with it init_serial_connection, never runs
ServeWithoutInit ==
    /\ phase = "boot"
    /\ phase' = "serving"
    /\ UNCHANGED <<ser, req, log, cleanups>>

\* cleanup_serial with the test of the handle left out
cleanup_serial_unguarded ==
    /\ ser' = "closed"
    /\ cleanups' = cleanups + 1
    /\ UNCHANGED <<req, log>>

\* the body of cleanup_serial: it closes the port if there is one and it is
\* open, and does nothing otherwise
cleanup_serial ==
    /\ ser' = IF ser = "open" THEN "closed" ELSE ser
    /\ cleanups' = cleanups + 1
    /\ UNCHANGED <<req, log>>

\* cleanup_serial, run by atexit when the interpreter exits.  Handler
\* threads are daemon threads: they may still be running at this point.
CleanupSerial ==
    /\ phase = "serving"
    /\ cleanup_serial
    /\ phase' = "exited"

\* cleanup_serial called once more after the process has begun to exit
CleanupSerialAgain ==
    /\ phase = "exited"
    /\ cleanups < MaxCleanups
    /\ cleanup_serial
    /\ UNCHANGED phase

\* ---- request handlers ----

\* A handler's first lines (the argument check, the duration) touch nothing
\* shared, so they are one step with the handler's first send.  A handler
\* thread accepted before exit may reach that send after cleanup_serial.
\* Requests are numbered in order of arrival.
Arrives(r) ==
    /\ phase # "boot"
    /\ req[r].pc = "idle"
    /\ \A q \in Requests : q < r => req[q].pc # "idle"

\* the response for a rejected argument: no send is made
Reject(r, k, a) ==
    /\ req' = [req EXCEPT ![r] =
          [Idle EXCEPT !.pc = "done", !.kind = k, !.arg = a, !.status = 400,
                       !.message = "Distance must be positive"]]
    /\ UNCHANGED log

\* SendStart with the failure of the start send ignored
SendStartIgnoringFailure(r, k, a, w) ==
    LET res == SendMotorCommandUart(w)
        me  == [Idle EXCEPT !.kind = k, !.arg = a, !.duration = Duration(k, a)]
    IN
    /\ log' = Append(log, LogEntry(r, StartCommand(k), res))
    /\ req' = [req EXCEPT ![r] =
          IF me.duration < 0
          THEN [me EXCEPT !.pc = "done", !.status = 500, !.message = "ValueError"]
          ELSE [me EXCEPT !.pc = "hold"]]

\* SendStart with a failed start send attempted a second time
SendStartRetrying(r, k, a, w) ==
    LET res == SendMotorCommandUart(w)
        me  == [Idle EXCEPT !.kind = k, !.arg = a, !.duration = Duration(k, a)]
        e   == LogEntry(r, StartCommand(k), res)
    IN
    /\ log' = IF res.ok THEN Append(log, e) ELSE Append(Append(log, e), e)
    /\ req' = [req EXCEPT ![r] =
          IF ~res.ok
          THEN [me EXCEPT !.pc = "done", !.status = 500, !.message = "Failed to start"]
          ELSE IF me.duration < 0
          THEN [me EXCEPT !.pc = "done", !.status = 500, !.message = "ValueError"]
          ELSE [me EXCEPT !.pc = "hold"]]

\* the start send of a timed move and what follows it without blocking:
\* the error return, or the call of time.sleep, which raises ValueError on
\* a negative duration
SendStart(r, k, a, w) ==
    LET res == SendMotorCommandUart(w)
        me  == [Idle EXCEPT !.kind = k, !.arg = a, !.duration = Duration(k, a)]
    IN
    /\ log' = Append(log, LogEntry(r, StartCommand(k), res))
    /\ req' = [req EXCEPT ![r] =
          IF ~res.ok
          THEN [me EXCEPT !.pc = "done", !.status = 500, !.message = "Failed to start"]
          ELSE IF me.duration < 0
          THEN [me EXCEPT !.pc = "done", !.status = 500, !.message = "ValueError"]
          ELSE [me EXCEPT !.pc = "hold"]]

\* forward with the argument check off by one (< for <=)
forwardNonNegative(r, distance_cm, w) ==
    /\ Arrives(r)
    /\ IF distance_cm < 0
       THEN Reject(r, "forward", distance_cm)
       ELSE SendStart(r, "forward", distance_cm, w)
    /\ UNCHANGED <<ser, phase, cleanups>>

forward(r, distance_cm, w) ==
    /\ Arrives(r)
    /\ IF distance_cm <= 0
       THEN Reject(r, "forward", distance_cm)
       ELSE SendStart(r, "forward", distance_cm, w)
    /\ UNCHANGED <<ser, phase, cleanups>>

backward(r, distance_cm, w) ==
    /\ Arrives(r)
    /\ IF distance_cm <= 0
       THEN Reject(r, "backward", distance_cm)
       ELSE SendStart(r, "backward", distance_cm, w)
    /\ UNCHANGED <<ser, phase, cleanups>>

\* left with the argument check of forward copied into it
leftPositiveOnly(r, degree, w) ==
    /\ Arrives(r)
    /\ IF degree <= 0
       THEN Reject(r, "left", degree)
       ELSE SendStart(r, "left", degree, w)
    /\ UNCHANGED <<ser, phase, cleanups>>

left(r, degree, w) ==
    /\ Arrives(r)
    /\ SendStart(r, "left", degree, w)
    /\ UNCHANGED <<ser, phase, cleanups>>

right(r, degree, w) ==
    /\ Arrives(r)
    /\ SendStart(r, "right", degree, w)
    /\ UNCHANGED <<ser, phase, cleanups>>

\* SendStop with the hold left out: Stop goes out right after the start
SendStopNoHold(r, w) ==
    /\ req[r].pc = "hold"
    /\ LET res == SendMotorCommandUart(w) IN
       /\ log' = Append(log, LogEntry(r, StopCommand, res))
       /\ req' = [req EXCEPT ![r] =
             IF res.ok
             THEN [@ EXCEPT !.pc = "done", !.status = 200, !.message = "OK"]
             ELSE [@ EXCEPT !.pc = "done", !.status = 500, !.message = "Failed to stop"]]
    /\ UNCHANGED <<ser, phase, cleanups>>

\* SendStop with the result of the stop send swallowed
SendStopSwallowingFailure(r, w) ==
    /\ req[r].pc = "hold"
    /\ LET res == SendMotorCommandUart(w) IN
       /\ log' = Append(log, LogEntry(r, StopCommand, res))
       /\ req' = [req EXCEPT ![r] =
             [@ EXCEPT !.pc = "done", !.slept = req[r].duration,
                       !.status = 200, !.message = "OK"]]
    /\ UNCHANGED <<ser, phase, cleanups>>

\* the rest of a timed move: time.sleep(duration) returns once the whole
\* duration has passed, then the stop send and the response.  How long the
\* thread sleeps beyond the duration constrains no other thread, so the
\* wake-up and the send are one step.
SendStop(r, w) ==
    /\ req[r].pc = "hold"
    /\ LET res == SendMotorCommandUart(w) IN
       /\ log' = Append(log, LogEntry(r, StopCommand, res))
       /\ req' = [req EXCEPT ![r] =
             IF res.ok
             THEN [@ EXCEPT !.pc = "done", !.slept = req[r].duration,
                            !.status = 200, !.message = "OK"]
             ELSE [@ EXCEPT !.pc = "done", !.slept = req[r].duration,
                            !.status = 500, !.message = "Failed to stop"]]
    /\ UNCHANGED <<ser, phase, cleanups>>

\* stop with the result of its send ignored in the response
stopAlwaysOK(r, w) ==
    /\ Arrives(r)
    /\ LET res == SendMotorCommandUart(w) IN
       /\ log' = Append(log, LogEntry(r, StopCommand, res))
       /\ req' = [req EXCEPT ![r] =
             [Idle EXCEPT !.pc = "done", !.status = 200, !.message = "OK"]]
    /\ UNCHANGED <<ser, phase, cleanups>>

\* stop with a cancellation added: it ends the hold of every timed move
stopCancellingHolds(r, w) ==
    /\ Arrives(r)
    /\ LET res == SendMotorCommandUart(w) IN
       /\ log' = Append(log, LogEntry(r, StopCommand, res))
       /\ req' = [q \in Requests |->
             IF q = r
             THEN IF res.ok
                  THEN [Idle EXCEPT !.pc = "done", !.status = 200, !.message = "OK"]
                  ELSE [Idle EXCEPT !.pc = "done", !.status = 500, !.message = res.msg]
             ELSE IF req[q].pc = "hold"
             THEN [req[q] EXCEPT !.pc = "done", !.status = 200, !.message = "OK"]
             ELSE req[q]]
    /\ UNCHANGED <<ser, phase, cleanups>>

\* the /stop handler: one send, no hold
stop(r, w) ==
    /\ Arrives(r)
    /\ LET res == SendMotorCommandUart(w) IN
       /\ log' = Append(log, LogEntry(r, StopCommand, res))
       /\ req' = [req EXCEPT ![r] =
             IF res.ok
             THEN [Idle EXCEPT !.pc = "done", !.status = 200, !.message = "OK"]
             ELSE [Idle EXCEPT !.pc = "done", !.status = 500, !.message = res.msg]]
    /\ UNCHANGED <<ser, phase, cleanups>>

Next ==
    \/ InitSerialConnection
    \/ ServeWithoutInit
    \/ CleanupSerial
    \/ \E r \in Requests, a \in ArgValues, w \in WriteOutcomes : forward(r, a, w)
    \/ \E r \in Requests, a \in ArgValues, w \in WriteOutcomes : backward(r, a, w)
    \/ \E r \in Requests, a \in ArgValues, w \in WriteOutcomes : left(r, a, w)
    \/ \E r \in Requests, a \in ArgValues, w \in WriteOutcomes : right(r, a, w)
    \/ \E r \in Requests, w \in WriteOutcomes : SendStop(r, w)
    \/ \E r \in Requests, w \in WriteOutcomes : stop(r, w)

Spec == Init /\ [][Next]_vars

\* the same program on a transport that may accept a command in part
NextPartial ==
    \/ InitSerialConnection
    \/ ServeWithoutInit
    \/ CleanupSerial
    \/ \E r \in Requests, a \in ArgValues, w \in PartialWriteOutcomes : forward(r, a, w)
    \/ \E r \in Requests, a \in ArgValues, w \in PartialWriteOutcomes : backward(r, a, w)
    \/ \E r \in Requests, a \in ArgValues, w \in PartialWriteOutcomes : left(r, a, w)
    \/ \E r \in Requests, a \in ArgValues, w \in PartialWriteOutcomes : right(r, a, w)
    \/ \E r \in Requests, w \in PartialWriteOutcomes : SendStop(r, w)
    \/ \E r \in Requests, w \in PartialWriteOutcomes : stop(r, w)

SpecPartial == Init /\ [][NextPartial]_vars

\* the same program with cleanup_serial called more than once
NextCleanup ==
    \/ Next
    \/ CleanupSerialAgain

SpecCleanup == Init /\ [][NextCleanup]_vars

TypeOK ==
    /\ ser \in {"None", "open", "closed"}
    /\ phase \in {"boot", "serving", "exited"}
    /\ \A r \in Requests : req[r].pc \in {"idle", "hold", "done"}
    /\ Len(log) <= 2 * MaxRequests

\* ---- reading the log ----

\* the calls of send_motor_command_uart made by request r, in order
Sends(r) == SelectSeq(log, LAMBDA e : e.by = r)

\* the commands that reached the transport, in order
Written == SelectSeq(log, LAMBDA e : e.wrote # "none")

AllOk(s) == \A i \in DOMAIN s : s[i].ok

\* ---- C1 ----
\* C1: the commands written to the channel are a concatenation of complete
\* per-request sequences: between a request's written start and its own
\* later send, no other request writes a command.
C1_NoInterleavedSends ==
    \A i, j \in DOMAIN log :
        (i < j /\ log[i].by = log[j].by /\ log[i].wrote # "none")
        => \A k \in i..j : log[k].by = log[i].by \/ log[k].wrote = "none"

\* ---- C2 ----
\* C2: once shutdown has closed the channel, the last command written to it
\* before the close is Stop.
C2_LastWriteBeforeCloseIsStop ==
    (ser = "closed" /\ Written # <<>>)
    => Written[Len(Written)].cmd = [T |-> "1", L |-> 0, R |-> 0]

\* ---- C3 ----
\* C3: a Forward(d) request with d > 0 all of whose sends succeeded made
\* exactly two sends, the start (0.3, 0.3) and then, after the whole hold of
\* d / 10 s, Stop (0.0, 0.0), and answered 200 OK; while it holds, the start
\* is its only send.
C3_ForwardStartHoldStop ==
    \A r \in Requests :
        (req[r].kind = "forward" /\ req[r].arg > 0) =>
            /\ (req[r].pc = "hold") =>
                  /\ Len(Sends(r)) = 1
                  /\ Sends(r)[1].cmd = [T |-> "1", L |-> 3, R |-> 3]
                  /\ req[r].slept = 0
            /\ (req[r].pc = "done" /\ AllOk(Sends(r))) =>
                  /\ Len(Sends(r)) = 2
                  /\ Sends(r)[1].cmd = [T |-> "1", L |-> 3, R |-> 3]
                  /\ Sends(r)[2].cmd = [T |-> "1", L |-> 0, R |-> 0]
                  /\ Sends(r)[1].wrote = "all" /\ Sends(r)[2].wrote = "all"
                  /\ req[r].slept * 10 = req[r].arg * TicksPerSecond
                  /\ req[r].status = 200 /\ req[r].message = "OK"

C3_Witness ==
    \E r \in Requests :
        /\ req[r].kind = "forward" /\ req[r].arg = 25
        /\ req[r].pc = "done" /\ req[r].status = 200
        /\ Len(Sends(r)) = 2 /\ req[r].slept > 0

\* ---- C4 ----
\* C4: Forward(d) and Backward(d) with d <= 0 answer 400 and make no send,
\* whatever the state of the channel.
C4_NonPositiveDistanceRejected ==
    \A r \in Requests :
        (req[r].kind \in {"forward", "backward"} /\ req[r].arg <= 0) =>
            /\ req[r].pc = "done"
            /\ req[r].status = 400
            /\ req[r].message = "Distance must be positive"
            /\ Sends(r) = <<>>
            /\ req[r].slept = 0

C4_Witness ==
    /\ ser = "open"
    /\ \E r, q \in Requests :
          /\ req[r].kind = "forward" /\ req[r].arg = 0 /\ req[r].status = 400
          /\ req[q].kind = "backward" /\ req[q].arg < 0 /\ req[q].status = 400
    /\ log = <<>>

\* ---- C5 ----
\* C5: a timed move whose start send failed made that one send only, never
\* held, sent no Stop, and answered 500 "Failed to start".
C5_StartFailedNoHoldNoStop ==
    \A r \in Requests :
        (req[r].kind \in TimedKinds /\ Sends(r) # <<>> /\ ~Sends(r)[1].ok) =>
            /\ req[r].pc = "done"
            /\ Len(Sends(r)) = 1
            /\ Sends(r)[1].cmd # [T |-> "1", L |-> 0, R |-> 0]
            /\ req[r].slept = 0
            /\ req[r].status = 500
            /\ req[r].message = "Failed to start"

C5_Witness ==
    /\ ser = "open" /\ phase = "serving"
    /\ \E r, q \in Requests :
          /\ req[r].kind = "left" /\ req[r].arg > 0
          /\ req[r].message = "Failed to start" /\ Len(Sends(r)) = 1
          /\ req[q].kind = "backward" /\ req[q].arg > 0
          /\ req[q].message = "Failed to start" /\ Len(Sends(q)) = 1

\* ---- C6 ----
\* C6: a timed move whose start send succeeded and whose stop send failed
\* answers 500 "Failed to stop", and the only command it wrote is its
\* non-zero start command.
C6_StopFailedReported ==
    \A r \in Requests :
        (/\ req[r].kind \in TimedKinds
         /\ Len(Sends(r)) = 2
         /\ Sends(r)[1].ok
         /\ ~Sends(r)[2].ok) =>
            /\ req[r].pc = "done"
            /\ req[r].status = 500
            /\ req[r].message = "Failed to stop"
            /\ SelectSeq(Sends(r), LAMBDA e : e.wrote # "none") = <<Sends(r)[1]>>
            /\ Sends(r)[1].cmd.L # 0 /\ Sends(r)[1].cmd.R # 0

C6_Witness ==
    /\ ser = "open"
    /\ \E r \in Requests :
          /\ req[r].kind = "right" /\ req[r].message = "Failed to stop"
          /\ Len(Sends(r)) = 2 /\ Sends(r)[1].ok /\ ~Sends(r)[2].ok

\* ---- C7 ----
\* C7: TurnLeft(deg) and TurnRight(deg) with deg < 0 answer 400.
C7_NegativeTurnRejected ==
    \A r \in Requests :
        (req[r].kind \in {"left", "right"} /\ req[r].arg < 0) =>
            req[r].status = 400

\* ---- C8 ----
\* C8: a turn of 0 degrees all of whose sends succeeded made exactly two
\* sends, its start and then Stop, with a hold of zero, and answered 200 OK;
\* a distance of 0 is answered 400.
C8_ZeroTurnValidZeroDistanceNot ==
    \A r \in Requests :
        /\ (req[r].kind \in {"left", "right"} /\ req[r].arg = 0) =>
              /\ req[r].status # 400
              /\ req[r].duration = 0
              /\ (req[r].pc = "done" /\ AllOk(Sends(r))) =>
                    /\ Len(Sends(r)) = 2
                    /\ Sends(r)[1].cmd =
                          IF req[r].kind = "left"
                          THEN [T |-> "1", L |-> -3, R |-> 3]
                          ELSE [T |-> "1", L |-> 3, R |-> -3]
                    /\ Sends(r)[2].cmd = [T |-> "1", L |-> 0, R |-> 0]
                    /\ req[r].slept = 0
                    /\ req[r].status = 200 /\ req[r].message = "OK"
        /\ (req[r].kind \in {"forward", "backward"} /\ req[r].arg = 0) =>
              req[r].status = 400 /\ Sends(r) = <<>>

C8_Witness ==
    \E r, q \in Requests :
        /\ req[r].kind = "left" /\ req[r].arg = 0 /\ req[r].status = 200
        /\ Len(Sends(r)) = 2
        /\ req[q].kind = "forward" /\ req[q].arg = 0 /\ req[q].status = 400

\* ---- C9 ----
\* C9: in a step taken while the channel is not open, every send made fails
\* and writes nothing, and a request arriving with a valid argument ends at
\* once with 500, nothing written and no hold.
C9_ClosedChannelFailsFast ==
    [][ser # "open" =>
        /\ \A i \in DOMAIN log' :
              i > Len(log) => (~log'[i].ok /\ log'[i].wrote = "none")
        /\ Written' = Written
        /\ \A r \in Requests :
              (/\ req[r].pc = "idle"
               /\ req'[r].pc # "idle"
               /\ ~(req'[r].kind \in {"forward", "backward"} /\ req'[r].arg <= 0))
              => /\ req'[r].pc = "done"
                 /\ req'[r].status = 500
                 /\ req'[r].slept = 0
                 /\ Len(log') = Len(log) + 1
    ]_vars

\* the channel was never opened, and a timed move and a stop have both been
\* answered 500
C9_Witness ==
    /\ ser = "None" /\ phase = "serving"
    /\ Written = <<>>
    /\ \E r, q \in Requests :
          /\ req[r].kind = "forward" /\ req[r].arg > 0
          /\ req[r].pc = "done" /\ req[r].status = 500
          /\ req[q].kind = "stop" /\ req[q].pc = "done" /\ req[q].status = 500
          /\ Len(Sends(r)) = 1 /\ Len(Sends(q)) = 1

\* ---- C10 ----
\* C10: a send whose write took only part of the command's bytes reports
\* failure to its caller.
C10_PartialWriteReported ==
    \A i \in DOMAIN log : log[i].wrote = "partial" => ~log[i].ok

\* ---- C11 ----
\* C11: a Stop request is never answered 400; it makes exactly one send, of
\* (0.0, 0.0), without a hold, and it answers 200 OK exactly when that send
\* succeeded (500 otherwise).
C11_StopSingleSend ==
    \A r \in Requests :
        (req[r].kind = "stop" /\ req[r].pc # "idle") =>
            /\ req[r].pc = "done"
            /\ Len(Sends(r)) = 1
            /\ Sends(r)[1].cmd = [T |-> "1", L |-> 0, R |-> 0]
            /\ req[r].slept = 0 /\ req[r].duration = 0
            /\ req[r].status \in {200, 500}
            /\ (req[r].status = 200) <=> Sends(r)[1].ok
            /\ (req[r].message = "OK") <=> Sends(r)[1].ok

\* one Stop request answered 200 and another answered 500 on an open channel
C11_Witness ==
    /\ ser = "open"
    /\ \E r, q \in Requests :
          /\ req[r].kind = "stop" /\ req[r].pc = "done" /\ req[r].status = 200
          /\ req[q].kind = "stop" /\ req[q].pc = "done" /\ req[q].status = 500

\* ---- C12 ----
\* C12: an answered request has status 200 exactly when it made all its
\* sends (two for a timed move, one for stop) and all succeeded, 400 exactly
\* when its argument was rejected and it made no send, 500 exactly when one
\* of its sends failed; there is no other status.
C12_StatusDeterminedByOutcome ==
    \A r \in Requests :
        (req[r].pc = "done") =>
            /\ req[r].status \in {200, 400, 500}
            /\ (req[r].status = 200) <=>
                  /\ AllOk(Sends(r))
                  /\ Len(Sends(r)) = IF req[r].kind = "stop" THEN 1 ELSE 2
            /\ (req[r].status = 400) <=>
                  /\ req[r].kind \in {"forward", "backward"}
                  /\ req[r].arg <= 0
                  /\ Sends(r) = <<>>
            /\ (req[r].status = 500) <=> ~AllOk(Sends(r))

\* ---- C13 ----
\* C13: in every state each request has made at most two sends, no two of
\* the same command, and none after a send of its own that failed; and no
\* step opens a channel that is not open once the process serves.
C13_NoRetry ==
    [][/\ \A r \in Requests :
             /\ Len(Sends(r)') <= 2
             /\ \A i \in DOMAIN Sends(r)' : i < Len(Sends(r)') => Sends(r)'[i].ok
             /\ (Len(Sends(r)') = 2) => Sends(r)'[1].cmd # Sends(r)'[2].cmd
       /\ (phase # "boot" /\ ser # "open") => ser' # "open"
    ]_vars

\* the open failed, two requests each made their one failing send, and the
\* process has exited with the channel still not open
C13_Witness ==
    /\ ser = "None" /\ phase = "exited"
    /\ Len(log) = 2
    /\ \E r, q \in Requests :
          /\ r # q
          /\ req[r].kind \in TimedKinds /\ req[r].status = 500 /\ Len(Sends(r)) = 1
          /\ req[q].kind = "stop" /\ req[q].status = 500 /\ Len(Sends(q)) = 1

\* ---- C14 ----
\* C14: a run of cleanup_serial on a channel that is not open (closed
\* already, or never opened) changes neither the channel nor anything else,
\* and after any run of it the channel is not open.
C14_CloseIdempotent ==
    [][(cleanups' # cleanups) =>
          /\ ser' # "open"
          /\ (ser # "open") => (ser' = ser /\ req' = req /\ log' = log)
    ]_vars

\* cleanup_serial has run a second time, on the channel it had closed
C14_Witness ==
    /\ cleanups = 2
    /\ ser = "closed"

\* ---- C15 ----
\* C15: the hold of a Forward(d) or Backward(d) with d > 0 is d / 10 s, that
\* is d tenths of a second; for d = 25 it is 2.5 s.
C15_LinearDurationExact ==
    \A r \in Requests :
        (req[r].kind \in {"forward", "backward"} /\ req[r].arg > 0) =>
            /\ req[r].duration * 10 = req[r].arg * TicksPerSecond
            /\ (req[r].arg = 25) => (2 * req[r].duration = 5 * TicksPerSecond)
            /\ (req[r].pc = "done" /\ Len(Sends(r)) = 2) =>
                  req[r].slept = req[r].duration

\* a Forward(25) has held for its 2.5 s and sent its Stop
C15_Witness ==
    \E r \in Requests :
        /\ req[r].kind = "forward" /\ req[r].arg = 25
        /\ req[r].pc = "done" /\ Len(Sends(r)) = 2
        /\ 2 * req[r].slept = 5 * TicksPerSecond

\* ---- C16 ----
\* C16: every command passed to the channel has both wheel speeds of
\* magnitude at most 0.5; each speed is -0.3, 0.0 or 0.3, and the command is
\* a nominal-speed pair or Stop.
C16_SpeedsInSafeRange ==
    \A i \in DOMAIN log :
        LET c == log[i].cmd IN
        /\ c.T = "1"
        /\ c.L >= -5 /\ c.L <= 5 /\ c.R >= -5 /\ c.R <= 5
        /\ c.L \in {-3, 0, 3} /\ c.R \in {-3, 0, 3}
        /\ (c.L = 0) <=> (c.R = 0)

\* four commands have been written, moves in both directions and Stops
C16_Witness ==
    /\ Len(Written) = 4
    /\ \E i, j, k \in DOMAIN Written :
          /\ Written[i].cmd.L = 3
          /\ Written[j].cmd.L = -3
          /\ Written[k].cmd = [T |-> "1", L |-> 0, R |-> 0]

\* ---- C17 ----
\* C17: the first send of a timed move carries the wheel pair of its
\* direction: forward (0.3, 0.3), backward (-0.3, -0.3), left (-0.3, 0.3),
\* right (0.3, -0.3); a turn's wheels have equal magnitude and opposite sign.
C17_StartPairing ==
    \A r \in Requests :
        (req[r].kind \in TimedKinds /\ Sends(r) # <<>>) =>
            LET c == Sends(r)[1].cmd IN
            /\ (req[r].kind = "forward")  => (c.L = 3 /\ c.R = 3)
            /\ (req[r].kind = "backward") => (c.L = -3 /\ c.R = -3)
            /\ (req[r].kind = "left")     => (c.L = -3 /\ c.R = 3)
            /\ (req[r].kind = "right")    => (c.L = 3 /\ c.R = -3)
            /\ (req[r].kind \in {"left", "right"}) => (c.L + c.R = 0 /\ c.L # 0)

\* a left turn and a right turn have both written their start command
C17_Witness ==
    \E r, q \in Requests :
        /\ req[r].kind = "left" /\ Sends(r) # <<>> /\ Sends(r)[1].wrote = "all"
        /\ req[q].kind = "right" /\ Sends(q) # <<>> /\ Sends(q)[1].wrote = "all"

\* ---- C18 ----
\* C18: when a Stop request made its send while a timed move was in its
\* hold, the timed move is either still in that hold or has ended it by
\* waiting the whole duration and then making its own Stop send, after the
\* Stop request's.
C18_StopDoesNotCancelHold ==
    \A r \in Requests :
        (req[r].kind \in TimedKinds /\ req[r].duration >= 0) =>
        \A q \in Requests :
        (req[q].kind = "stop" /\ req[q].pc = "done") =>
        \A i, j \in DOMAIN log :
            (/\ log[i].by = r /\ log[j].by = q /\ i < j
             /\ log[i].ok
             /\ \A k \in 1..(j - 1) : (log[k].by = r) => (k = i))
            => \/ /\ req[r].pc = "hold"
                  /\ req[r].slept = 0
                  /\ \A m \in DOMAIN log : (log[m].by = r) => (m = i)
               \/ /\ req[r].pc = "done"
                  /\ req[r].slept = req[r].duration
                  /\ \E m \in DOMAIN log :
                        /\ m > j /\ log[m].by = r
                        /\ log[m].cmd = [T |-> "1", L |-> 0, R |-> 0]
                        /\ \A n \in DOMAIN log :
                              (log[n].by = r) => (n = i \/ n = m)

\* forward started, a Stop request was written during its hold, and the
\* forward then waited out its duration and wrote its own Stop
C18_Witness ==
    \E r, q \in Requests :
        /\ req[r].kind = "forward" /\ req[q].kind = "stop"
        /\ Len(log) = 3
        /\ log[1].by = r /\ log[2].by = q /\ log[3].by = r
        /\ \A i \in 1..3 : log[i].wrote = "all"
        /\ req[r].pc = "done" /\ req[r].status = 200
        /\ req[r].slept = req[r].duration /\ req[r].duration > 0

\* ---- C19 ----
\* C19: a timed move that has answered after a start send that succeeded
\* has made a second send, of Stop (0.0, 0.0).
C19_StopAttemptedAfterStart ==
    \A r \in Requests :
        (/\ req[r].kind \in TimedKinds
         /\ req[r].pc = "done"
         /\ Sends(r) # <<>>
         /\ Sends(r)[1].ok) =>
            /\ Len(Sends(r)) = 2
            /\ Sends(r)[2].cmd = [T |-> "1", L |-> 0, R |-> 0]

\* ---- C20 ----
\* C20: when no request is in progress and no send has failed, the last
\* command written to the channel, if there is one, is Stop (0.0, 0.0).
C20_QuiescentAtRest ==
    (/\ \A r \in Requests : req[r].pc \in {"idle", "done"}
     /\ \A i \in DOMAIN log : log[i].ok
     /\ Written # <<>>)
    => Written[Len(Written)].cmd = [T |-> "1", L |-> 0, R |-> 0]

====
